---- MODULE Spec2Model ----
(***************************************************************************)
(* Model of src/src/main.rs: a Machine owning a Bus, which owns a Cpu      *)
(* (ExtCpu<Io>), a Vdp and a Ppi.  Two std::sync::mpsc channels connect    *)
(* them: the request channel (Message) and the response channel            *)
(* (Response).  The program never spawns a thread: Bus::step, the handlers *)
(* it dispatches and the blocking Io::read all run on the one thread of    *)
(* main, so one program counter describes the whole control state.         *)
(*                                                                         *)
(* Bus::new takes both channels from its caller, so the request channel    *)
(* may already hold messages when step() is called; Init enumerates such   *)
(* contents (pre).  Machine::new, the assembly main uses, is the case      *)
(* pre = <<>>, named Fresh.                                                *)
(***************************************************************************)
EXTENDS Integers, Sequences, FiniteSets, TLC

\* ---- bounds ----
\* longest request-channel content present when step() is called
MaxPre == 2
\* number of loop iterations (dispatches) explored
MaxDispatch == 7
\* number of direct calls of Io methods explored
MaxCalls == 2

\* sample of the u16 address space
Addrs == {0, 1, 65535}
\* sample of the u8 port space
Ports == {0, 1, 255}
\* sample of the u8 data space
Bytes == {1, 255}

\* ---- enum Message (main.rs 9-15) ----
CpuStep == [type |-> "CpuStep", addr |-> 0]
ReadByte(addr) == [type |-> "ReadByte", addr |-> addr]
VdpEnableLineInterrupt == [type |-> "VdpEnableLineInterrupt", addr |-> 0]
CpuEnableInterrupt == [type |-> "CpuEnableInterrupt", addr |-> 0]

Message ==
  {CpuStep, VdpEnableLineInterrupt, CpuEnableInterrupt} \cup {ReadByte(a) : a \in Addrs}

\* sequences over S of length at most n
SeqUpTo(S, n) == UNION {[1..k -> S] : k \in 0..n}

\* number of occurrences of x in the sequence s
Count(x, s) == Cardinality({i \in 1..Len(s) : s[i] = x})

VARIABLES
  pc,          \* where the thread is: "main", "loop" (request_receiver.recv()),
               \* "read" (response_receiver.recv() inside Io::read)
  req,         \* request channel: messages sent and not yet received
  rsp,         \* response channel: responses sent and not yet received
  double,      \* TRUE when the peripheral is the Scenario B test double
  pre,         \* request channel content when step() was called
  submitted,   \* history: every message sent on the request channel, in order
  dispatched,  \* history: every message the Bus loop matched on, in order
  portWrites,  \* history: every write_port call as <<port, data>>
  readReq,     \* history: position in submitted of the ReadByte sent by the running Io::read
  consumed,    \* history: for each returned Io::read, its own request, the one answered, the byte
  zeroReads,   \* history: number of ExtCpu::step reads that returned 0
  calls        \* history: the Io methods called directly on the port, with their outcome

vars ==
  <<pc, req, rsp, double, pre, submitted, dispatched, portWrites, readReq, consumed, zeroReads,
    calls>>

\* ---- channel primitives ----
\* Sender::send: append at the tail of the channel
send(q, m) == Append(q, m)

recv_lifo(q) == [msg |-> q[Len(q)], rest |-> SubSeq(q, 1, Len(q) - 1)]

recv_keep(q) == [msg |-> Head(q), rest |-> q]

\* Receiver::recv on a non-empty channel: take the oldest message
recv(q) == [msg |-> Head(q), rest |-> Tail(q)]

\* ---- peripherals and processing unit ----
Ppi_read_byte_zero(addr) == 0

Ppi_read_byte_low(addr) == addr % 256

\* Ppi::read_byte: the stub answers 0xfe for every address
Ppi_read_byte(addr) == 254

\* Scenario B test double: answers 0 for read(0)
Double_read_byte(addr) == IF addr = 0 THEN 0 ELSE 254

Io_write_port_inline(q, port, data) == send(q, CpuEnableInterrupt)

\* Io::write_port: ignores port and data, sends VdpEnableLineInterrupt
Io_write_port(q, port, data) == send(q, VdpEnableLineInterrupt)

\* Vdp::enable_line_interrupt: sends CpuEnableInterrupt
Vdp_enable_line_interrupt(q) == send(q, CpuEnableInterrupt)

\* ExtCpu::enable_interrupt (via Cpu::enable_interrupt): write_port(1, 1)
ExtCpu_enable_interrupt(q) == Io_write_port(q, 1, 1)

Io_read_send_twice(q, addr) == send(send(q, ReadByte(addr)), ReadByte(addr))

\* Io::read, first half: sends ReadByte(addr) on a clone of the request sender
Io_read_send(q, addr) == send(q, ReadByte(addr))

\* Io::write: prints and returns, the request channel is not touched
Io_write(q, addr, data) == q

Io_read_port_default(q, r, port) == [out |-> "returned", value |-> 0, req |-> q, rsp |-> r]

\* Io::read_port: prints, then todo!() panics; nothing is sent or received
Io_read_port(q, r, port) == [out |-> "panic", value |-> -1, req |-> q, rsp |-> r]

ExtCpu_step_always_writes(data) == TRUE

\* ExtCpu::step, the test on the value read(0) returned
ExtCpu_step_writes_port(data) == data = 0

\* ---- initial states ----
Init ==
  /\ pc = "main"
  /\ pre \in SeqUpTo(Message, MaxPre)
  /\ req = pre
  /\ rsp = <<>>
  /\ double \in BOOLEAN
  /\ submitted = pre
  /\ dispatched = <<>>
  /\ portWrites = <<>>
  /\ readReq = 0
  /\ consumed = <<>>
  /\ zeroReads = 0
  /\ calls = <<>>

\* ---- actions ----
\* Machine::step -> Bus::step up to the loop: send CpuStep
BusStep ==
  /\ pc = "main"
  /\ req' = send(req, CpuStep)
  /\ submitted' = Append(submitted, CpuStep)
  /\ pc' = "loop"
  /\ UNCHANGED <<rsp, double, pre, dispatched, portWrites, readReq, consumed, zeroReads, calls>>

\* the loop can take a message: recv() returns only when the channel is not empty
CanDispatch(type) ==
  /\ pc = "loop"
  /\ req # <<>>
  /\ Len(dispatched) < MaxDispatch
  /\ recv(req).msg.type = type

\* Message::CpuStep => cpu.step() -> ExtCpu::step -> Io::read(0), up to the
\* blocking response_receiver.recv()
DispatchCpuStep ==
  /\ CanDispatch("CpuStep")
  /\ dispatched' = Append(dispatched, recv(req).msg)
  /\ req' = Io_read_send(recv(req).rest, 0)
  /\ submitted' = Append(submitted, ReadByte(0))
  /\ readReq' = Len(submitted) + 1
  /\ pc' = "read"
  /\ UNCHANGED <<rsp, double, pre, portWrites, consumed, zeroReads, calls>>

\* Io::read after recv() returned, then the rest of ExtCpu::step, back to the loop
IoReadReturn ==
  /\ pc = "read"
  /\ rsp # <<>>
  /\ LET response == Head(rsp)
     IN /\ rsp' = Tail(rsp)
        /\ consumed' = Append(consumed, [own |-> readReq, got |-> response.req, data |-> response.data])
        /\ zeroReads' = IF response.data = 0 THEN zeroReads + 1 ELSE zeroReads
        /\ IF ExtCpu_step_writes_port(response.data)
             THEN /\ req' = Io_write_port(req, 0, 1)
                  /\ submitted' = Append(submitted, VdpEnableLineInterrupt)
                  /\ portWrites' = Append(portWrites, <<0, 1>>)
             ELSE UNCHANGED <<req, submitted, portWrites>>
  /\ readReq' = 0
  /\ pc' = "loop"
  /\ UNCHANGED <<double, pre, dispatched, calls>>

\* Message::ReadByte(addr) => ppi.read_byte(addr), send Response::ByteRead(data)
DispatchReadByte ==
  /\ CanDispatch("ReadByte")
  /\ LET m == recv(req).msg
         data == IF double THEN Double_read_byte(m.addr) ELSE Ppi_read_byte(m.addr)
     IN /\ dispatched' = Append(dispatched, m)
        /\ rsp' = Append(rsp, [data |-> data, req |-> Len(dispatched) + 1])
  /\ req' = recv(req).rest
  /\ UNCHANGED <<pc, double, pre, submitted, portWrites, readReq, consumed, zeroReads, calls>>

\* Message::VdpEnableLineInterrupt => vdp.enable_line_interrupt()
DispatchVdpEnableLineInterrupt ==
  /\ CanDispatch("VdpEnableLineInterrupt")
  /\ dispatched' = Append(dispatched, recv(req).msg)
  /\ req' = Vdp_enable_line_interrupt(recv(req).rest)
  /\ submitted' = Append(submitted, CpuEnableInterrupt)
  /\ UNCHANGED <<pc, rsp, double, pre, portWrites, readReq, consumed, zeroReads, calls>>

\* Message::CpuEnableInterrupt => cpu.enable_interrupt()
DispatchCpuEnableInterrupt ==
  /\ CanDispatch("CpuEnableInterrupt")
  /\ dispatched' = Append(dispatched, recv(req).msg)
  /\ req' = ExtCpu_enable_interrupt(recv(req).rest)
  /\ submitted' = Append(submitted, VdpEnableLineInterrupt)
  /\ portWrites' = Append(portWrites, <<1, 1>>)
  /\ UNCHANGED <<pc, rsp, double, pre, readReq, consumed, zeroReads, calls>>

Next ==
  \/ BusStep
  \/ DispatchCpuStep
  \/ IoReadReturn
  \/ DispatchReadByte
  \/ DispatchVdpEnableLineInterrupt
  \/ DispatchCpuEnableInterrupt

Spec == Init /\ [][Next]_vars

\* one thread that runs whenever it is not blocked in a recv()
FairSpec == Spec /\ WF_vars(Next)

\* ---- the I/O port called directly ----
\* ExtCpu is generic over ExtCpuIo and calls only read and write_port; write
\* and read_port are reached by a caller that holds the Io itself.  Such a
\* caller finds the channels with any content.
IoInit ==
  /\ pc = "io"
  /\ pre \in SeqUpTo(Message, MaxPre)
  /\ req = pre
  /\ rsp \in {<<>>, <<[data |-> 254, req |-> 0]>>}
  /\ double = FALSE
  /\ submitted = pre
  /\ dispatched = <<>>
  /\ portWrites = <<>>
  /\ readReq = 0
  /\ consumed = <<>>
  /\ zeroReads = 0
  /\ calls = <<>>

CanCall ==
  /\ pc = "io"
  /\ Len(calls) < MaxCalls

\* io.write(addr, data)
IoWrite ==
  /\ CanCall
  /\ \E addr \in Addrs, data \in Bytes :
       /\ req' = Io_write(req, addr, data)
       /\ calls' = Append(calls, [op |-> "write", a |-> addr, b |-> data,
                                  out |-> "returned", value |-> -1])
  /\ UNCHANGED <<pc, rsp, double, pre, submitted, dispatched, portWrites, readReq, consumed,
                 zeroReads>>

\* io.write_port(port, data)
IoWritePort ==
  /\ CanCall
  /\ \E port \in Ports, data \in Bytes :
       /\ req' = Io_write_port(req, port, data)
       /\ portWrites' = Append(portWrites, <<port, data>>)
       /\ calls' = Append(calls, [op |-> "write_port", a |-> port, b |-> data,
                                  out |-> "returned", value |-> -1])
  /\ submitted' = Append(submitted, VdpEnableLineInterrupt)
  /\ UNCHANGED <<pc, rsp, double, pre, dispatched, readReq, consumed, zeroReads>>

\* io.read_port(port)
IoReadPort ==
  /\ CanCall
  /\ \E port \in Ports :
       LET r == Io_read_port(req, rsp, port)
       IN /\ req' = r.req
          /\ rsp' = r.rsp
          /\ calls' = Append(calls, [op |-> "read_port", a |-> port, b |-> 0,
                                     out |-> r.out, value |-> r.value])
          /\ pc' = IF r.out = "panic" THEN "panic" ELSE "io"
  /\ UNCHANGED <<double, pre, submitted, dispatched, portWrites, readReq, consumed, zeroReads>>

IoNext ==
  \/ IoWrite
  \/ IoWritePort
  \/ IoReadPort

IoSpec == IoInit /\ [][IoNext]_vars

\* ---- predicates used by the properties ----
\* the Machine as main assembles it: nothing sent before step()
Fresh == pre = <<>>

\* nothing of the interrupt path was in the channel when step() was called
PreNoIrq == \A i \in 1..Len(pre) : pre[i].type \in {"CpuStep", "ReadByte"}

\* the exploration horizon
CapReached == Len(dispatched) >= MaxDispatch

\* positions of the messages of one type in a history
Positions(type, s) == {i \in 1..Len(s) : s[i].type = type}

\* C1: Machine.step() on a freshly constructed Machine with the stub
\* peripheral eventually returns, with the request queue empty and no caller
\* blocked awaiting a Response.
C1_StepReturns ==
  (Fresh /\ ~double) => <>(pc = "done" /\ req = <<>> /\ readReq = 0)

\* C2: a read blocked on the response channel is eventually resolved: the Bus
\* dispatches the ReadByte that read submitted and the read returns the
\* response produced for it.
C2_ReadResolves ==
  Fresh => \A n \in 1..(MaxPre + MaxDispatch + 1) :
    (pc = "read" /\ readReq = n)
      ~> (\E i \in 1..Len(consumed) : consumed[i].own = n /\ consumed[i].got = n)

\* C3: the context that drains the request queue is never the one blocked
\* waiting for a Response that only it could produce.
C3_BusNeverAwaitsResponse ==
  Fresh => ~(pc = "read" /\ rsp = <<>>)

\* C4: the system never stays silently stuck: a state in which no step is
\* possible is a state where step() has returned or failed with a fatal error.
C4_FailsFast ==
  Fresh => (pc \in {"done", "fatal"} \/ ENABLED Next)

\* C5: requests are dispatched in exactly the order they were submitted: the
\* dispatched history followed by the queue content is the submitted history,
\* so nothing is skipped, duplicated or reordered.
C5_DispatchFIFO ==
  submitted = dispatched \o req

C5_Witness ==
  /\ Len(dispatched) >= 3
  /\ req # <<>>
  /\ dispatched[1] # dispatched[2]
  /\ dispatched[2] # dispatched[3]

\* the Scenario B trace: PortWrite(0,1), then the VdpEnableLineInterrupt
\* dispatch, then the CpuEnableInterrupt dispatch
ScenarioBObserved ==
  /\ Count(<<0, 1>>, portWrites) >= 1
  /\ \E i \in Positions("VdpEnableLineInterrupt", dispatched) :
       \E j \in Positions("CpuEnableInterrupt", dispatched) : i < j

\* C6: Scenario B: with a peripheral that returns 0 for read(0), one
\* Machine.step() produces PortWrite(0,1), then the VdpEnableLineInterrupt
\* dispatch, then the CpuEnableInterrupt dispatch.
C6_ScenarioB ==
  (Fresh /\ double) => <>ScenarioBObserved

\* C7: with the stub peripheral and no interrupt-path request sent before
\* step(), write_port is never called and neither VdpEnableLineInterrupt nor
\* CpuEnableInterrupt is ever enqueued or dispatched.
C7_StubNoInterruptPath ==
  (~double /\ PreNoIrq) =>
     /\ portWrites = <<>>
     /\ Positions("VdpEnableLineInterrupt", submitted) = {}
     /\ Positions("CpuEnableInterrupt", submitted) = {}
     /\ Positions("VdpEnableLineInterrupt", dispatched) = {}
     /\ Positions("CpuEnableInterrupt", dispatched) = {}

\* a step() of the stub Machine read 0xFE and went back to the loop
C7_Witness ==
  /\ ~double
  /\ PreNoIrq
  /\ consumed # <<>>
  /\ zeroReads = 0
  /\ pc = "loop"

C9_EnableInterruptReachesCpu ==
  \A k \in 1..MaxDispatch :
    (Cardinality(Positions("VdpEnableLineInterrupt", dispatched)) >= k)
      ~> \/ Cardinality(Positions("CpuEnableInterrupt", dispatched))
              >= k + Cardinality(Positions("CpuEnableInterrupt", pre))
         \/ CapReached

\* C10: responses correlate 1:1 with reads: as many ByteRead sent as ReadByte
\* dispatched, each consumed by the read whose request produced it, and none
\* sent while no caller is pending on the response channel.
C10_ResponsesCorrelate ==
  /\ Len(consumed) + Len(rsp) = Cardinality(Positions("ReadByte", dispatched))
  /\ \A i \in 1..Len(consumed) : consumed[i].own = consumed[i].got
  /\ rsp # <<>> => pc = "read"

\* every message that reached the request channel: dispatched or still queued
Seen == dispatched \o req

\* ReadByte requests sent by Io::read (those not already there at step())
ReadsIssued ==
  Cardinality(Positions("ReadByte", Seen)) - Cardinality(Positions("ReadByte", pre))

C12_StubAlwaysFE ==
  ~double =>
     /\ \A i \in 1..Len(rsp) : rsp[i].data = 254
     /\ \A i \in 1..Len(consumed) : consumed[i].data = 254

\* reads of two different non-zero addresses were answered
C12_Witness ==
  /\ ~double
  /\ ReadByte(1) \in {dispatched[i] : i \in 1..Len(dispatched)}
  /\ ReadByte(65535) \in {dispatched[i] : i \in 1..Len(dispatched)}
  /\ Len(rsp) + Len(consumed) >= 2

\* messages of one type that entered the request channel after step() was called
Raised(type) ==
  Cardinality(Positions(type, Seen)) - Cardinality(Positions(type, pre))

\* C14: only a write to port 0 raises the line interrupt: the number of
\* VdpEnableLineInterrupt requests enqueued is the number of write_port(0, _)
\* calls, a write to any other port leaving the queue as it was.
C14_OnlyPortZeroRaises ==
  Raised("VdpEnableLineInterrupt")
    = Cardinality({i \in 1..Len(portWrites) : portWrites[i][1] = 0})

\* C15: side effects are only appended to the queue: every write_port call
\* left one VdpEnableLineInterrupt in the channel and nothing else, every
\* CpuEnableInterrupt in the channel was raised by a dispatched
\* VdpEnableLineInterrupt, and enable_interrupt ran once per dispatched
\* CpuEnableInterrupt, never inside the call that raised it.
C15_SideEffectsOnlyEnqueued ==
  /\ Raised("VdpEnableLineInterrupt") = Len(portWrites)
  /\ Raised("CpuEnableInterrupt")
       = Cardinality(Positions("VdpEnableLineInterrupt", dispatched))
  /\ Count(<<1, 1>>, portWrites)
       = Cardinality(Positions("CpuEnableInterrupt", dispatched))

\* write_port(0,1) of a step() returned with its request queued; the handlers
\* ran in later iterations
C15_Witness ==
  /\ pc = "loop"
  /\ Count(<<0, 1>>, portWrites) = 1
  /\ Count(<<1, 1>>, portWrites) = 1
  /\ req # <<>>
  /\ req[Len(req)] = VdpEnableLineInterrupt

\* an interrupt-path request is waiting in the request channel
IrqQueued ==
  \E i \in 1..Len(req) : req[i].type \in {"VdpEnableLineInterrupt", "CpuEnableInterrupt"}

\* number of interrupt-path requests dispatched so far
IrqDispatched ==
  Cardinality(Positions("VdpEnableLineInterrupt", dispatched))
    + Cardinality(Positions("CpuEnableInterrupt", dispatched))

\* C18: once a VdpEnableLineInterrupt or CpuEnableInterrupt is queued, the
\* interrupt path keeps being dispatched: another interrupt-path request is
\* dispatched, again and again, within the exploration horizon.
C18_InterruptPathKeepsRunning ==
  \A k \in 0..MaxDispatch :
    (pc # "main" /\ IrqQueued /\ IrqDispatched = k) ~> (IrqDispatched > k \/ CapReached)

\* C19: during Machine.step() on a freshly constructed Machine the request
\* channel never holds more than one undispatched message, whatever the
\* peripheral returns.
C19_QueueAtMostOne ==
  Fresh => Len(req) <= 1

\* the fresh Machine blocked in its read with its ReadByte queued
C19_Witness ==
  /\ Fresh
  /\ pc = "read"
  /\ Len(req) = 1
  /\ Len(dispatched) = 1

\* the call just made, in a step that made one
LastCall == calls'[Len(calls')]

\* C13: a port read, for any port, ends in the explicit not-implemented
\* failure: it returns no byte, sends no request and takes no response.
C13_ReadPortFailsLoudly ==
  [][(Len(calls') > Len(calls) /\ LastCall.op = "read_port") =>
       /\ LastCall.out = "panic"
       /\ LastCall.value = -1
       /\ pc' = "panic"
       /\ req' = req
       /\ rsp' = rsp]_vars

\* read_port on a port other than 0 failed with requests and a response waiting
C13_Witness ==
  /\ pc = "panic"
  /\ calls # <<>>
  /\ calls[Len(calls)].op = "read_port"
  /\ calls[Len(calls)].a = 255
  /\ req # <<>>
  /\ rsp # <<>>

\* C17: every write(addr, data) put exactly one WriteByte request on the
\* request channel and returned.
C17_WriteEnqueuesWriteByte ==
  Cardinality(Positions("WriteByte", req))
    = Cardinality({i \in 1..Len(calls) : calls[i].op = "write"})

====
